---- MODULE Spec2Model ----
(***************************************************************************)
(* Model of the Rainbow DQN learning core of                               *)
(* src/Rainbow_DQN/plot_results.py: ReplayBuffer (ring buffer + n-step     *)
(* window), PrioritizedReplayBuffer (priorities, sampling, importance      *)
(* weights), the categorical projection of DQNAgent._compute_dqn_loss,     *)
(* the DQNAgent acting/storing steps and the loop of DQNAgent.train (beta  *)
(* schedule, learning step, target sync).                                  *)
(*                                                                         *)
(* Numbers.  Python floats are modelled by exact scaled integers:          *)
(*   - gamma is the rational GammaNum / GammaDen; a buffer with n-step     *)
(*     window n keeps rews_buf in units of 1 / GammaDen^(n-1);             *)
(*   - a priority p is kept in units of 1 / PUnit (max_priority 1.0 is     *)
(*     PUnit); a tree leaf priority^alpha is kept in units of              *)
(*     1 / PUnit^alpha, alpha being a natural number;                      *)
(*   - quotients that stay fractional (importance weights, beta) are pairs *)
(*     <<numerator, denominator>> in lowest terms.                         *)
(*                                                                         *)
(* segment_tree.py (SumSegmentTree, MinSegmentTree) is imported by the     *)
(* source but is not part of src/: the tree operators are modelled from    *)
(* the specification text (section 4.1).                                   *)
(***************************************************************************)
EXTENDS Integers, Sequences, FiniteSets, TLC

\* ------------------------------------------------------------------ bounds
\* replay capacity (memory_size) used by the model
Capacity == 2
\* largest n-step window length explored
MaxNStep == 3
\* number of store calls / frames explored
MaxStores == 4
\* rewards are drawn from 1..MaxRew
MaxRew == 2
\* actions are drawn from 0..MaxAct
MaxAct == 0

\* gamma = GammaNum / GammaDen (the spec's example value 0.9)
GammaNum == 9
GammaDen == 10
\* batch_size used by the model
BatchSize == 2
\* priorities are kept in units of 1 / PUnit: max_priority 1.0 is PUnit
PUnit == 2
\* a buffer capacity that is no power of two
OddCapacity == 3
\* alpha is drawn from 0..MaxAlpha, beta from 0..MaxBeta (exponents)
MaxAlpha == 1
MaxBeta == 1
\* largest n-step window of a PrioritizedReplayBuffer used on its own
MaxPerNStep == 2
\* number of store calls made on a PrioritizedReplayBuffer used on its own
MaxPerStores == 3
\* a uniform draw from a segment [a, b] is one of a + (b - a) * d / DrawGrid,
\* d in 0..DrawGrid
DrawGrid == 1
\* update_priorities is called with at most MaxUpdate indices / priorities
MaxUpdate == 2
\* number of frames of the agent explored
MaxFrames == 4
\* train(num_frames) is run with num_frames = NumFrames
NumFrames == 4
\* test() is followed for at most MaxTestSteps environment steps
MaxTestSteps == 2
\* target_update is drawn from 1..MaxTargetUpdate
MaxTargetUpdate == 2
\* the initial beta is one of k / BetaDen, k in 1..BetaDen
BetaDen == 2
\* the end-to-end sampling scenario: a buffer of ScenCapacity slots, the
\* last one raised to priority ScenHigh, sampled with batch_size ScenBatch
\* or with a batch_size the buffer can serve
ScenCapacity == 4
ScenBatch == 100
ScenHigh == 100
\* categorical support: AtomSize atoms evenly spaced on [VMin, VMax]
AtomSize == 3
VMin == 0
VMax == 4
\* a bootstrap distribution carries ProjMass units of probability mass
ProjMass == 4
\* rewards handed to the projection are drawn from -1..MaxProjRew
MaxProjRew == 5

VARIABLES
    memory,     \* a PrioritizedReplayBuffer (DQNAgent.memory)
    memory_n,   \* a plain ReplayBuffer (DQNAgent.memory_n)
    hist,       \* log of the arguments of every store call so far
    last,       \* the last call made on memory: arguments and outcome
    agent,      \* the other fields of DQNAgent and the position in a frame
    proj        \* input and result of the last categorical projection

vars == <<memory, memory_n, hist, last, agent, proj>>

\* ------------------------------------------------------------- arithmetic
RECURSIVE Pow(_, _)
Pow(x, k) == IF k = 0 THEN 1 ELSE x * Pow(x, k - 1)

Min2(a, b) == IF a <= b THEN a ELSE b
Max2(a, b) == IF a >= b THEN a ELSE b

\* storing a Python bool into a float32 array
BoolToFloat(d) == IF d THEN 1 ELSE 0

\* ----------------------------------------------------------- ReplayBuffer
\* ReplayBuffer.__init__: zeroed arrays, ptr = size = 0, empty window;
\* batch_size is BatchSize unless a specification sets another one
ReplayBuffer_init(size, n_step) ==
    [ obs_buf       |-> [i \in 0..(size - 1) |-> 0],
      next_obs_buf  |-> [i \in 0..(size - 1) |-> 0],
      acts_buf      |-> [i \in 0..(size - 1) |-> 0],
      rews_buf      |-> [i \in 0..(size - 1) |-> 0],
      done_buf      |-> [i \in 0..(size - 1) |-> 0],
      max_size      |-> size,
      batch_size    |-> BatchSize,
      ptr           |-> 0,
      size          |-> 0,
      n_step_buffer |-> <<>>,
      n_step        |-> n_step ]

\* deque(maxlen = n).append: the oldest entry is evicted on overflow
DequeAppend(q, x, maxlen) ==
    IF Len(q) = maxlen THEN Append(Tail(q), x) ELSE Append(q, x)

\* a fold that never cuts the return at a terminal entry
NStepFoldOne_noCut(acc, t, scale) ==
    [ rew      |-> t.rew * scale + (GammaNum * acc.rew) \div GammaDen,
      next_obs |-> IF t.done THEN t.next_obs ELSE acc.next_obs,
      done     |-> IF t.done THEN t.done ELSE acc.done ]

\* a fold that keeps the bootstrap observation and done flag of the first
\* terminal entry met while scanning backward from the newest entry
NStepFoldOne_keepLatest(acc, t, scale) ==
    [ rew      |-> t.rew * scale
                   + (GammaNum * acc.rew * (1 - BoolToFloat(t.done))) \div GammaDen,
      next_obs |-> IF t.done /\ ~acc.done THEN t.next_obs ELSE acc.next_obs,
      done     |-> IF t.done /\ ~acc.done THEN t.done ELSE acc.done ]

\* one iteration of the loop of _get_n_step_info (lines 112-115); acc is
\* (rew, next_obs, done), rew in units of 1 / GammaDen^(n-1)
NStepFoldOne(acc, t, scale) ==
    [ rew      |-> t.rew * scale
                   + (GammaNum * acc.rew * (1 - BoolToFloat(t.done))) \div GammaDen,
      next_obs |-> IF t.done THEN t.next_obs ELSE acc.next_obs,
      done     |-> IF t.done THEN t.done ELSE acc.done ]

\* the loop over reversed(list(n_step_buffer)[:-1]), entries i, i-1, .., 1
RECURSIVE NStepLoop(_, _, _, _)
NStepLoop(win, i, acc, scale) ==
    IF i = 0 THEN acc
    ELSE NStepLoop(win, i - 1, NStepFoldOne(acc, win[i], scale), scale)

\* ReplayBuffer._get_n_step_info
get_n_step_info(win) ==
    LET scale == Pow(GammaDen, Len(win) - 1)
        newest == win[Len(win)]
        acc0 == [ rew      |-> newest.rew * scale,
                  next_obs |-> newest.next_obs,
                  done     |-> newest.done ]
    IN  NStepLoop(win, Len(win) - 1, acc0, scale)

\* a ring pointer that sticks at the last slot instead of wrapping
NextPtr_saturate(buf) == Min2(buf.ptr + 1, buf.max_size - 1)

\* line 74: self.ptr = (self.ptr + 1) % self.max_size
NextPtr(buf) == (buf.ptr + 1) % buf.max_size

\* a size counter that is not capped at the capacity
NextSize_uncapped(buf) == buf.size + 1

\* line 75: self.size = min(self.size + 1, self.max_size)
NextSize(buf) == Min2(buf.size + 1, buf.max_size)

\* ReplayBuffer.store: the buffer after the call
ReplayBuffer_store(buf, t) ==
    LET win == DequeAppend(buf.n_step_buffer, t, buf.n_step)
    IN  IF Len(win) < buf.n_step
        THEN [buf EXCEPT !.n_step_buffer = win]
        ELSE LET info == get_n_step_info(win)
             IN  [buf EXCEPT
                    !.n_step_buffer = win,
                    !.obs_buf[buf.ptr] = win[1].obs,
                    !.next_obs_buf[buf.ptr] = info.next_obs,
                    !.acts_buf[buf.ptr] = win[1].act,
                    !.rews_buf[buf.ptr] = info.rew,
                    !.done_buf[buf.ptr] = BoolToFloat(info.done),
                    !.ptr = NextPtr(buf),
                    !.size = NextSize(buf)]

\* a store that returns the folded n-step transition it has just written
ReplayBuffer_store_ret_folded(buf, t) ==
    LET win == DequeAppend(buf.n_step_buffer, t, buf.n_step)
        info == get_n_step_info(win)
    IN  IF Len(win) < buf.n_step THEN <<>>
        ELSE << [ obs |-> win[1].obs, act |-> win[1].act, rew |-> info.rew,
                  next_obs |-> info.next_obs, done |-> info.done ] >>

\* ReplayBuffer.store: the value returned (lines 60 and 77), <<>> for the
\* empty tuple, else self.n_step_buffer[0]
ReplayBuffer_store_ret(buf, t) ==
    LET win == DequeAppend(buf.n_step_buffer, t, buf.n_step)
    IN  IF Len(win) < buf.n_step THEN <<>> ELSE <<win[1]>>

\* ReplayBuffer.__len__
BufLen(buf) == buf.size

\* ---------------------------------------------------------- segment trees
\* SumSegmentTree / MinSegmentTree: a complete binary tree kept as a
\* function on 1..(2 * capacity - 1), node 1 the root, leaf i at node
\* capacity + i; every internal node holds op(left child, right child)
SegmentTree_init(capacity, identity) ==
    [n \in 1..(2 * capacity - 1) |-> identity]

\* +infinity, the identity of the min tree: above every leaf value
Inf == Pow(Max2(3, ScenHigh) * PUnit, MaxAlpha) + 1

\* update(index, value) of the sum tree: set the leaf, recompute ancestors
RECURSIVE SumTree_fix(_, _)
SumTree_fix(tree, node) ==
    IF node < 1 THEN tree
    ELSE SumTree_fix([tree EXCEPT ![node] = tree[2 * node] + tree[2 * node + 1]],
                     node \div 2)

SumTree_update(tree, capacity, idx, val) ==
    SumTree_fix([tree EXCEPT ![capacity + idx] = val], (capacity + idx) \div 2)

\* update(index, value) of the min tree
RECURSIVE MinTree_fix(_, _)
MinTree_fix(tree, node) ==
    IF node < 1 THEN tree
    ELSE MinTree_fix([tree EXCEPT ![node] = Min2(tree[2 * node], tree[2 * node + 1])],
                     node \div 2)

MinTree_update(tree, capacity, idx, val) ==
    MinTree_fix([tree EXCEPT ![capacity + idx] = val], (capacity + idx) \div 2)

\* tree[idx]: the value of leaf idx
Leaf(tree, capacity, idx) == tree[capacity + idx]

\* reduce(start, end) of the sum tree over the leaves start..end
RECURSIVE SumTree_sum(_, _, _, _)
SumTree_sum(tree, capacity, start, end) ==
    IF end < start THEN 0
    ELSE SumTree_sum(tree, capacity, start, end - 1) + Leaf(tree, capacity, end)

\* sum() / min() over the whole tree: the root
SumTree_total(tree) == tree[1]
MinTree_min(tree) == tree[1]

\* a descent that goes left only when target < left subtree sum
RECURSIVE SumTree_retrieve_strict(_, _, _, _)
SumTree_retrieve_strict(tree, capacity, node, target) ==
    IF node >= capacity THEN node - capacity
    ELSE IF target < tree[2 * node]
         THEN SumTree_retrieve_strict(tree, capacity, 2 * node, target)
         ELSE SumTree_retrieve_strict(tree, capacity, 2 * node + 1,
                                      target - tree[2 * node])

\* retrieve(target): descend from the root; go left when target <= left
\* subtree sum, else subtract it and go right
RECURSIVE SumTree_retrieve(_, _, _, _)
SumTree_retrieve(tree, capacity, node, target) ==
    IF node >= capacity THEN node - capacity
    ELSE IF target <= tree[2 * node]
         THEN SumTree_retrieve(tree, capacity, 2 * node, target)
         ELSE SumTree_retrieve(tree, capacity, 2 * node + 1, target - tree[2 * node])

\* ------------------------------------------------ PrioritizedReplayBuffer
\* lines 154-156: the smallest power of two >= max_size
RECURSIVE TreeCapacityFrom(_, _)
TreeCapacityFrom(c, max_size) ==
    IF c < max_size THEN TreeCapacityFrom(2 * c, max_size) ELSE c

TreeCapacity(max_size) == TreeCapacityFrom(1, max_size)

\* a constructor that insists on a positive alpha
AlphaOk_positive(alpha) == alpha > 0

\* line 145: assert alpha >= 0
AlphaOk(alpha) == alpha >= 0

\* what is left of a PrioritizedReplayBuffer whose constructor failed
NoBuffer == [built |-> FALSE]

\* PrioritizedReplayBuffer.__init__ (after the assert alpha >= 0)
PrioritizedReplayBuffer_init(size, alpha, n_step) ==
    ReplayBuffer_init(size, n_step) @@
    [ max_priority  |-> PUnit,
      tree_ptr      |-> 0,
      alpha         |-> alpha,
      tree_capacity |-> TreeCapacity(size),
      sum_tree      |-> SegmentTree_init(TreeCapacity(size), 0),
      min_tree      |-> SegmentTree_init(TreeCapacity(size), Inf) ]

\* a new transition that gets priority 1.0 whatever max_priority is
StorePriority_one(per) == Pow(PUnit, per.alpha)

\* lines 173-174: self.max_priority ** self.alpha
StorePriority(per) == Pow(per.max_priority, per.alpha)

\* PrioritizedReplayBuffer.store: the buffer after the call
\* a priority pointer that wraps at the tree capacity, not the buffer's
NextTreePtr_treeCapacity(per) == (per.tree_ptr + 1) % per.tree_capacity

\* self.tree_ptr = (self.tree_ptr + 1) % self.max_size
NextTreePtr(per) == (per.tree_ptr + 1) % per.max_size

PrioritizedReplayBuffer_store(per, t) ==
    LET transition == ReplayBuffer_store_ret(per, t)
        stored == ReplayBuffer_store(per, t)
    IN  IF transition # <<>>
        THEN [stored EXCEPT
                !.sum_tree = SumTree_update(per.sum_tree, per.tree_capacity,
                                            per.tree_ptr, StorePriority(per)),
                !.min_tree = MinTree_update(per.min_tree, per.tree_capacity,
                                            per.tree_ptr, StorePriority(per)),
                !.tree_ptr = NextTreePtr(per)]
        ELSE stored

\* a running maximum that tracks the latest priority only
NewMaxPriority_latest(per, priority) == priority

\* line 214: self.max_priority = max(self.max_priority, priority)
NewMaxPriority(per, priority) == Max2(per.max_priority, priority)

\* an index check against the capacity instead of the current length
IndexInRange_capacity(per, idx) == 0 <= idx /\ idx < per.max_size

\* line 209: 0 <= idx < len(self)
IndexInRange(per, idx) == 0 <= idx /\ idx < BufLen(per)

\* lines 208-214: the body of the loop for the k-th pair; the outcome is
\* the buffer, whether an assertion failed and the number of pairs applied
RECURSIVE UpdateLoop(_, _, _, _)
UpdateLoop(per, indices, priorities, k) ==
    IF k > Min2(Len(indices), Len(priorities))
    THEN [per |-> per, err |-> FALSE, applied |-> k - 1]
    ELSE IF ~(priorities[k] > 0) \/ ~IndexInRange(per, indices[k])
         THEN [per |-> per, err |-> TRUE, applied |-> k - 1]
         ELSE UpdateLoop(
                [per EXCEPT
                   !.sum_tree = SumTree_update(per.sum_tree, per.tree_capacity,
                                    indices[k], Pow(priorities[k], per.alpha)),
                   !.min_tree = MinTree_update(per.min_tree, per.tree_capacity,
                                    indices[k], Pow(priorities[k], per.alpha)),
                   !.max_priority = NewMaxPriority(per, priorities[k])],
                indices, priorities, k + 1)

\* an update that checks every pair before it applies the first one
update_priorities_atomic(per, indices, priorities) ==
    LET r == UpdateLoop(per, indices, priorities, 1)
    IN  IF Len(indices) # Len(priorities) \/ r.err
        THEN [per |-> per, err |-> TRUE, applied |-> 0]
        ELSE r

\* PrioritizedReplayBuffer.update_priorities
update_priorities(per, indices, priorities) ==
    IF Len(indices) # Len(priorities)
    THEN [per |-> per, err |-> TRUE, applied |-> 0]
    ELSE UpdateLoop(per, indices, priorities, 1)

\* ------------------------------------------------------- exact quotients
RECURSIVE GCD(_, _)
GCD(a, b) == IF b = 0 THEN a ELSE GCD(b, a % b)

\* the quotient n / d in lowest terms; d = 0 stands for a division by zero
Rat(n, d) ==
    LET g == GCD(n, d) IN IF g = 0 THEN <<0, 0>> ELSE <<n \div g, d \div g>>

\* x * y with cross-cancellation, x / y, x ** (-k)
RatMul(x, y) ==
    LET a == Rat(x[1], y[2])
        b == Rat(y[1], x[2])
    IN  <<a[1] * b[1], a[2] * b[2]>>
RatDiv(x, y) == RatMul(x, <<y[2], y[1]>>)
\* x + y, x - y and x <= y for quotients with positive denominators
RatAdd(x, y) == Rat(x[1] * y[2] + y[1] * x[2], x[2] * y[2])
RatSub(x, y) == Rat(x[1] * y[2] - y[1] * x[2], x[2] * y[2])
RatLeq(x, y) == x[1] * y[2] <= y[1] * x[2]
RatPowNeg(x, k) == <<Pow(x[2], k), Pow(x[1], k)>>

\* --------------------------------------------- sampling (lines 179-242)
\* the sum tree with every node multiplied by c
Scaled(tree, c) == [n \in DOMAIN tree |-> tree[n] * c]

\* a draw that is always taken from the first segment
SegmentPoint_firstSegment(p_total, i, d) == p_total * d

\* lines 223-225: the point random.uniform(a, b) of the i-th segment
\* (i = 0, 1, ..) picked by d in 0..DrawGrid, in units of
\* 1 / (DrawGrid * batch_size)
SegmentPoint(p_total, i, d) == p_total * (DrawGrid * i + d)

\* lines 219-225: the values handed to retrieve, draws[i+1] picking the
\* point of the i-th segment
sample_targets(per, draws) ==
    LET p_total == SumTree_sum(per.sum_tree, per.tree_capacity, 0, BufLen(per) - 1)
    IN  [ i \in 1..per.batch_size |-> SegmentPoint(p_total, i - 1, draws[i]) ]

\* _sample_proportional; the tree is brought to the units of the targets
sample_proportional(per, draws) ==
    LET scaled == Scaled(per.sum_tree, DrawGrid * per.batch_size)
        targets == sample_targets(per, draws)
    IN  [ i \in 1..per.batch_size |->
            SumTree_retrieve(scaled, per.tree_capacity, 1, targets[i]) ]

\* a normalising weight taken from max_priority instead of the min tree
MaxWeight_fromMaxPriority(per, beta) ==
    RatPowNeg(RatMul(Rat(Pow(per.max_priority, per.alpha),
                         SumTree_total(per.sum_tree)),
                     <<BufLen(per), 1>>), beta)

\* lines 234-235: p_min and max_weight
MaxWeight(per, beta) ==
    RatPowNeg(RatMul(Rat(MinTree_min(per.min_tree), SumTree_total(per.sum_tree)),
                     <<BufLen(per), 1>>), beta)

\* _calculate_weight
calculate_weight(per, idx, beta) ==
    LET p_sample == Rat(Leaf(per.sum_tree, per.tree_capacity, idx),
                        SumTree_total(per.sum_tree))
        weight == RatPowNeg(RatMul(p_sample, <<BufLen(per), 1>>), beta)
    IN  RatDiv(weight, MaxWeight(per, beta))

\* lines 181-182: assert len(self) >= self.batch_size; assert beta > 0
sample_batch_asserts(per, beta_positive) ==
    BufLen(per) >= per.batch_size /\ beta_positive

\* PrioritizedReplayBuffer.sample_batch: failed assertion, or the indices
\* and weights of the batch
sample_batch(per, beta, draws) ==
    IF ~sample_batch_asserts(per, beta > 0)
    THEN [err |-> TRUE, indices |-> <<>>, weights |-> <<>>]
    ELSE LET indices == sample_proportional(per, draws)
         IN  [ err |-> FALSE, indices |-> indices,
               weights |-> [i \in 1..per.batch_size |->
                              calculate_weight(per, indices[i], beta)] ]

\* ---------------------------------------------------------------- DQNAgent
\* the NoisyLinear sub-layers of a Network (lines 352-357)
NoisyLayers ==
    { "advantage_hidden_layer", "advantage_layer",
      "value_hidden_layer", "value_layer" }

\* Network.reset_noise: every noisy sub-layer draws new epsilon buffers;
\* draw number n of a head is told apart from every other draw
Network_reset_noise(net, head, n) ==
    [net EXCEPT !.noise = [l \in NoisyLayers |-> <<head, n>>]]

\* the state of a Network after its constructor: the trainable parameters
\* (an identifier of their value) and the weight_epsilon / bias_epsilon
\* buffers of each noisy sub-layer, drawn by NoisyLinear.__init__
Network_init(head) ==
    Network_reset_noise([params |-> 0, noise |-> <<>>], head, 0)

\* the batch of the last learning step: the sampled indices, the two
\* elementwise losses with where they were computed, the elementwise loss
\* that went into the gradient step and the new priorities
NoBatch ==
    [ indices |-> <<>>, loss_1 |-> <<>>, loss_n |-> <<>>, grad |-> <<>>,
      priorities |-> <<>> ]

\* DQNAgent.__init__ with n_step, beta and target_update, followed by the
\* first lines of train(num_frames) (lines 585-592): observation 0 is
\* current, the next fresh observation is 1.  beta is a quotient; beta_0
\* remembers the initial beta, batch the last sampled batch and trace the
\* operations of the current frame of train.  dqn_target starts as a copy of
\* dqn, noise buffers included (line 495)
DQNAgent_init(n_step, beta, target_update, num_frames) ==
    [ n_step        |-> n_step,
      use_n_step    |-> n_step > 1,
      is_test       |-> FALSE,
      transition    |-> <<>>,
      pc            |-> "act",
      state         |-> 0,
      action        |-> 0,
      next_state    |-> 0,
      done          |-> FALSE,
      next_id       |-> 1,
      frame_idx     |-> 0,
      test_steps    |-> 0,
      beta          |-> beta,
      beta_0        |-> beta,
      target_update |-> target_update,
      num_frames    |-> num_frames,
      update_cnt    |-> 0,
      score         |-> 0,
      scores        |-> <<>>,
      dqn           |-> Network_init("dqn"),
      dqn_target    |-> Network_init("dqn"),
      batch         |-> NoBatch,
      trace         |-> <<>> ]

\* the list self.transition as the five arguments of store
AsTransition(tr) ==
    [obs |-> tr[1], act |-> tr[2], rew |-> tr[3], next_obs |-> tr[4], done |-> tr[5]]

\* a step that always hands the raw transition of the frame to memory
OneStepTransition_raw(ag, mem_n, tr) == <<AsTransition(tr)>>

\* a step that hands the folded n-step transition to memory
OneStepTransition_folded(ag, mem_n, tr) ==
    IF ag.use_n_step
    THEN ReplayBuffer_store_ret_folded(mem_n, AsTransition(tr))
    ELSE <<AsTransition(tr)>>

\* lines 528-532: what memory_n.store returned, or the raw transition
OneStepTransition(ag, mem_n, tr) ==
    IF ag.use_n_step
    THEN ReplayBuffer_store_ret(mem_n, AsTransition(tr))
    ELSE <<AsTransition(tr)>>

\* --------------------------------- categorical projection (lines 671-700)
\* support[j] * (AtomSize - 1), j in 0..AtomSize-1 (torch.linspace)
SupportA(j) == VMin * (AtomSize - 1) + j * (VMax - VMin)

\* t_z for atom j in units of 1 / (GammaDen * (AtomSize - 1)), clamped to
\* [v_min, v_max] (lines 679-680); done is the float 0 / 1
Tz(reward, done, j) ==
    LET u == GammaDen * (AtomSize - 1)
        raw == reward * u + (1 - done) * GammaNum * SupportA(j)
    IN  Max2(VMin * u, Min2(VMax * u, raw))

\* b = (t_z - v_min) / delta_z as the quotient BNum / BDen (line 681)
BDen == GammaDen * (VMax - VMin)
BNum(reward, done, j) == Tz(reward, done, j) - VMin * GammaDen * (AtomSize - 1)

\* l = floor(b), u = ceil(b) (lines 682-683); b >= 0 after the clamp
FloorB(reward, done, j) == BNum(reward, done, j) \div BDen
CeilB(reward, done, j) == (BNum(reward, done, j) + BDen - 1) \div BDen

\* sum of f[j] over j in 0..n
RECURSIVE SumUpTo(_, _)
SumUpTo(f, n) == IF n < 0 THEN 0 ELSE SumUpTo(f, n - 1) + f[n]

\* the two index_add_ calls (lines 694-700) for one batch element:
\* proj_dist[i], in units of 1 / BDen of probability mass
ProjDist(reward, done, next_dist) ==
    [ i \in 0..(AtomSize - 1) |->
        SumUpTo([ j \in 0..(AtomSize - 1) |->
                    (IF FloorB(reward, done, j) = i
                     THEN next_dist[j] * (CeilB(reward, done, j) * BDen
                                          - BNum(reward, done, j))
                     ELSE 0)
                    + (IF CeilB(reward, done, j) = i
                       THEN next_dist[j] * (BNum(reward, done, j)
                                            - FloorB(reward, done, j) * BDen)
                       ELSE 0) ],
                AtomSize - 1) ]

NoProjection ==
    [ ran |-> FALSE, reward |-> 0, done |-> 0,
      next_dist |-> [j \in 0..(AtomSize - 1) |-> 0],
      proj_dist |-> [j \in 0..(AtomSize - 1) |-> 0] ]

\* ------------------------------------------------- inputs of a store call
\* the k-th transition handed to store carries observation k and
\* next-observation k+1, so that a slot's content identifies its origin
StoreInputs(k) ==
    { [obs |-> k, act |-> a, rew |-> r, next_obs |-> k + 1, done |-> d] :
        a \in 0..MaxAct, r \in 1..MaxRew, d \in BOOLEAN }

\* no call made yet, or the caller has dropped the last outcome
NoCall ==
    [ op |-> "none", err |-> FALSE, ret |-> <<>>, indices |-> <<>>,
      priorities |-> <<>>, weights |-> <<>>, beta |-> 0, applied |-> 0,
      alpha |-> 0, targets |-> <<>> ]

\* ------------------------------------------- specification: ReplayBuffer
InitBuf ==
    /\ \E n \in 1..MaxNStep : memory_n = ReplayBuffer_init(Capacity, n)
    /\ memory = PrioritizedReplayBuffer_init(Capacity, 0, 1)
    /\ hist = <<>>
    /\ last = NoCall
    /\ agent = DQNAgent_init(1, <<1, 1>>, 1, 0)
    /\ proj = NoProjection

BufStore ==
    /\ Len(hist) < MaxStores
    /\ \E t \in StoreInputs(Len(hist)) :
         /\ memory_n' = ReplayBuffer_store(memory_n, t)
         /\ hist' = Append(hist, t)
         /\ last' = [NoCall EXCEPT !.op = "store",
                                   !.ret = ReplayBuffer_store_ret(memory_n, t)]
    /\ UNCHANGED <<memory, agent, proj>>

NextBuf == BufStore

SpecBuf == InitBuf /\ [][NextBuf]_vars

\* -------------------------------- specification: PrioritizedReplayBuffer
\* the transitions handed to a PrioritizedReplayBuffer used on its own
PerStoreInputs(k) ==
    { [obs |-> k, act |-> 0, rew |-> 1, next_obs |-> k + 1, done |-> FALSE] }

\* the priorities handed to update_priorities: 0 is not a valid priority
UpdatePriorityValues == {0, 1, PUnit, 3 * PUnit}

\* the priorities of the single-pair updates
OddPriorityValues == {0, 1, 3 * PUnit}

\* sequences over S of length 0..n
SeqsUpTo(S, n) == UNION { [1..k -> S] : k \in 0..n }

\* PrioritizedReplayBuffer(obs_dim, Capacity, BatchSize, alpha, n_step): a
\* failed assert leaves no buffer to call
InitPer ==
    /\ \E n \in 1..MaxPerNStep, a \in (-1)..MaxAlpha :
         IF AlphaOk(a)
         THEN /\ memory = PrioritizedReplayBuffer_init(Capacity, a, n)
              /\ last = NoCall
         ELSE /\ memory = NoBuffer
              /\ last = [NoCall EXCEPT !.op = "init", !.err = TRUE, !.alpha = a]
    /\ memory_n = ReplayBuffer_init(Capacity, 1)
    /\ hist = <<>>
    /\ agent = DQNAgent_init(1, <<1, 1>>, 1, 0)
    /\ proj = NoProjection

\* memory.store(obs, act, rew, next_obs, done), up to max_stores times
PerStoreUpTo(max_stores) ==
    /\ last.op = "none"
    /\ Len(hist) < max_stores
    /\ \E t \in PerStoreInputs(Len(hist)) :
         /\ memory' = PrioritizedReplayBuffer_store(memory, t)
         /\ hist' = Append(hist, t)
         /\ last' = [NoCall EXCEPT !.op = "store",
                                   !.ret = ReplayBuffer_store_ret(memory, t)]
    /\ UNCHANGED <<memory_n, agent, proj>>

PerStore == PerStoreUpTo(MaxPerStores)

\* memory.sample_batch(beta)
PerSample ==
    /\ last.op = "none"
    /\ \E beta \in (-1)..MaxBeta, draws \in [1..BatchSize -> 0..DrawGrid] :
         LET r == sample_batch(memory, beta, draws)
         IN  last' = [NoCall EXCEPT !.op = "sample", !.err = r.err,
                                    !.beta = beta, !.indices = r.indices,
                                    !.weights = r.weights,
                                    !.targets = IF r.err THEN <<>>
                                                ELSE sample_targets(memory, draws)]
    /\ UNCHANGED <<memory, memory_n, hist, agent, proj>>

\* memory.update_priorities(indices, priorities), the arguments drawn from
\* index_seqs and priority_seqs
PerUpdateIn(index_seqs, priority_seqs) ==
    /\ last.op = "none"
    /\ \E indices \in index_seqs, priorities \in priority_seqs :
         LET r == update_priorities(memory, indices, priorities)
         IN  /\ memory' = r.per
             /\ last' = [NoCall EXCEPT !.op = "update", !.err = r.err,
                                       !.indices = indices,
                                       !.priorities = priorities,
                                       !.applied = r.applied]
    /\ UNCHANGED <<memory_n, hist, agent, proj>>

PerUpdate ==
    PerUpdateIn(SeqsUpTo(0..Capacity, MaxUpdate),
                SeqsUpTo(UpdatePriorityValues, MaxUpdate))

\* the caller drops the outcome of the last call
PerReturn ==
    /\ last.op \notin {"none", "init"}
    /\ last' = NoCall
    /\ UNCHANGED <<memory, memory_n, hist, agent, proj>>

NextPer == PerStore \/ PerSample \/ PerUpdate \/ PerReturn

SpecPer == InitPer /\ [][NextPer]_vars

\* ------------- specification: a buffer whose capacity is no power of two
\* PrioritizedReplayBuffer(obs_dim, OddCapacity, BatchSize, alpha, n_step):
\* the trees have more leaves than the buffer has slots
InitPerOdd ==
    /\ \E n \in 1..MaxPerNStep, a \in 0..MaxAlpha :
         memory = PrioritizedReplayBuffer_init(OddCapacity, a, n)
    /\ last = NoCall
    /\ memory_n = ReplayBuffer_init(Capacity, 1)
    /\ hist = <<>>
    /\ agent = DQNAgent_init(1, <<1, 1>>, 1, 0)
    /\ proj = NoProjection

\* enough stores to wrap the ring once the window is full
OddStore == PerStoreUpTo(OddCapacity + MaxPerNStep)

\* update_priorities with one pair at a time: a longer call applies its
\* pairs one after the other
OddUpdate ==
    PerUpdateIn([1..1 -> 0..OddCapacity], [1..1 -> OddPriorityValues])

NextPerOdd == OddStore \/ OddUpdate \/ PerReturn

SpecPerOdd == InitPerOdd /\ [][NextPerOdd]_vars

\* ------------------------------ specification: the sampling scenario
\* the batch sizes of the scenario: those a full buffer can serve, and
\* ScenBatch
ScenBatchSizes == (1..ScenCapacity) \cup {ScenBatch}

\* the priorities [1, .., 1, ScenHigh] of the scenario
ScenPriorities ==
    [ k \in 1..ScenCapacity |-> IF k = ScenCapacity THEN ScenHigh * PUnit ELSE PUnit ]

\* PrioritizedReplayBuffer(obs_dim, ScenCapacity, batch_size, alpha = 1)
InitScen ==
    /\ \E b \in ScenBatchSizes :
         memory = [PrioritizedReplayBuffer_init(ScenCapacity, 1, 1)
                     EXCEPT !.batch_size = b]
    /\ memory_n = ReplayBuffer_init(Capacity, 1)
    /\ hist = <<>>
    /\ last = NoCall
    /\ agent = DQNAgent_init(1, <<1, 1>>, 1, 0)
    /\ proj = NoProjection

ScenStore == PerStoreUpTo(ScenCapacity)

\* memory.update_priorities([0, .., ScenCapacity - 1], [1, .., 1, ScenHigh])
\* on the full buffer
ScenUpdate ==
    /\ last.op = "none"
    /\ BufLen(memory) = ScenCapacity
    /\ memory.max_priority = PUnit
    /\ LET indices == [k \in 1..ScenCapacity |-> k - 1]
           r == update_priorities(memory, indices, ScenPriorities)
       IN  /\ memory' = r.per
           /\ last' = [NoCall EXCEPT !.op = "update", !.err = r.err,
                                     !.indices = indices,
                                     !.priorities = ScenPriorities,
                                     !.applied = r.applied]
    /\ UNCHANGED <<memory_n, hist, agent, proj>>

\* memory.sample_batch(beta = 1); no draw is made when an assert fails
ScenSample ==
    /\ last.op = "none"
    /\ IF ~sample_batch_asserts(memory, TRUE)
       THEN last' = [NoCall EXCEPT !.op = "sample", !.beta = 1,
                                   !.err = sample_batch(memory, 1, <<>>).err]
       ELSE \E draws \in [1..memory.batch_size -> 0..DrawGrid] :
              LET r == sample_batch(memory, 1, draws)
              IN  last' = [NoCall EXCEPT !.op = "sample", !.err = r.err,
                                         !.beta = 1, !.indices = r.indices,
                                         !.weights = r.weights,
                                         !.targets = sample_targets(memory, draws)]
    /\ UNCHANGED <<memory, memory_n, hist, agent, proj>>

NextScen == ScenStore \/ ScenUpdate \/ ScenSample \/ PerReturn

SpecScen == InitScen /\ [][NextScen]_vars

\* ----------------------------------------------- specification: DQNAgent
InitAgent ==
    /\ \E n \in 1..MaxNStep :
         /\ agent = DQNAgent_init(n, <<1, 1>>, 1, MaxFrames)
         /\ memory_n = ReplayBuffer_init(Capacity, n)
    /\ memory = PrioritizedReplayBuffer_init(Capacity, MaxAlpha, 1)
    /\ hist = <<>>
    /\ last = NoCall
    /\ proj = NoProjection

\* a test mode that is ignored
Recording_always(ag) == TRUE

\* lines 515 and 524: if not self.is_test
Recording(ag) == ~ag.is_test

\* DQNAgent.select_action (line 595 of train, line 647 of test): the action
\* is whatever the online head prefers among actions; the caller's loop
\* goes on for num_frames frames of train, for at most MaxTestSteps steps
\* of test, and trace follows the frames of train only
SelectActionIn(actions) ==
    /\ agent.pc = "act"
    /\ IF agent.is_test THEN agent.test_steps < MaxTestSteps
       ELSE agent.frame_idx < agent.num_frames
    /\ \E selected_action \in actions :
         agent' = [agent EXCEPT
                     !.transition = IF Recording(agent)
                                    THEN <<agent.state, selected_action>>
                                    ELSE @,
                     !.action = selected_action,
                     !.frame_idx = IF agent.is_test THEN @ ELSE @ + 1,
                     !.test_steps = IF agent.is_test THEN @ + 1 ELSE @,
                     !.trace = IF agent.is_test THEN @ ELSE <<"act">>,
                     !.pc = "step"]
    /\ UNCHANGED <<memory, memory_n, hist, last, proj>>

SelectAction == SelectActionIn(0..MaxAct)

\* DQNAgent.step (line 596 of train, line 648 of test): the environment
\* answers with a fresh next observation, a reward out of rewards and a
\* done flag
StepIn(rewards) ==
    /\ agent.pc = "step"
    /\ \E reward \in rewards, done \in BOOLEAN :
         LET next_state == agent.next_id
             tr == agent.transition \o <<reward, next_state, done>>
             one_step_transition == OneStepTransition(agent, memory_n, tr)
         IN  /\ agent' = [agent EXCEPT
                            !.transition = IF Recording(agent) THEN tr ELSE @,
                            !.next_state = next_state,
                            !.done = done,
                            !.next_id = @ + 1,
                            !.trace = IF agent.is_test THEN @
                                      ELSE @ \o <<"step", "store">>,
                            !.pc = IF agent.is_test THEN "test_frame"
                                   ELSE "frame"]
             /\ IF ~Recording(agent)
                THEN UNCHANGED <<memory, memory_n, hist>>
                ELSE /\ hist' = Append(hist, AsTransition(tr))
                     /\ memory_n' = IF agent.use_n_step
                                    THEN ReplayBuffer_store(memory_n, AsTransition(tr))
                                    ELSE memory_n
                     /\ memory' = IF one_step_transition # <<>>
                                  THEN PrioritizedReplayBuffer_store(
                                           memory, one_step_transition[1])
                                  ELSE memory
    /\ UNCHANGED <<last, proj>>

Step == StepIn(1..MaxRew)

\* the rest of a frame of train as far as the observation goes: state =
\* next_state (line 598) and, when the episode ended, state = env.reset()
\* (lines 608-609)
FrameEnd ==
    /\ agent.pc = "frame"
    /\ agent' = [agent EXCEPT
                   !.state = IF agent.done THEN agent.next_id ELSE agent.next_state,
                   !.next_id = IF agent.done THEN @ + 1 ELSE @,
                   !.pc = "act"]
    /\ UNCHANGED <<memory, memory_n, hist, last, proj>>

NextAgent == SelectAction \/ Step \/ FrameEnd

SpecAgent == InitAgent /\ [][NextAgent]_vars

\* ----------------------------------------- specification: DQNAgent.train
\* a schedule that counts the frames from zero
Fraction_zeroBased(frame_idx, num_frames) ==
    IF frame_idx - 1 <= num_frames THEN Rat(frame_idx - 1, num_frames) ELSE <<1, 1>>

\* line 604: fraction = min(frame_idx / num_frames, 1.0)
Fraction(frame_idx, num_frames) ==
    IF frame_idx <= num_frames THEN Rat(frame_idx, num_frames) ELSE <<1, 1>>

\* line 605: self.beta = self.beta + fraction * (1.0 - self.beta)
NewBeta(beta, fraction) ==
    RatAdd(beta, RatMul(fraction, RatSub(<<1, 1>>, beta)))

\* a readiness test that only asks for a non-empty buffer
LearnReady_nonEmpty(per) == BufLen(per) >= 1

\* line 617: len(self.memory) >= self.batch_size
LearnReady(per) == BufLen(per) >= BatchSize

\* a sync test on the frame counter instead of the learning-step counter
SyncDue_byFrame(ag) == ag.frame_idx % ag.target_update = 0

\* line 623: update_cnt % self.target_update == 0
SyncDue(ag) == ag.update_cnt % ag.target_update = 0

\* a loop body whose hard-update test sits outside the learning branch
AfterFrame_syncOutside(ag, per) ==
    IF LearnReady(per) THEN "learn" ELSE IF SyncDue(ag) THEN "sync" ELSE "act"

\* lines 617-624: where the loop body goes after the bookkeeping of a
\* frame, and after a learning step
AfterFrame(ag, per) == IF LearnReady(per) THEN "learn" ELSE "act"
AfterLearn(ag) == IF SyncDue(ag) THEN "sync" ELSE "act"

\* the actions preferred and the rewards received during train
TrainActions == {0}
TrainRewards == {1}

\* the elementwise 1-step and n-step loss of a batch element, cross-
\* entropies and so never negative, in units of 1 / PUnit: a zero 1-step
\* loss with a small n-step loss, or a large 1-step loss with a zero
\* n-step loss
LossPairs == { <<0, 1>>, <<3 * PUnit - 1, 0>> }

\* self.prior_eps, a small positive number
PriorEps == 1

\* _compute_dqn_loss(samples, gamma ** gamma_pow) for the samples of buffer
\* at indices: one loss per index
ElementwiseLoss(buffer, indices, gamma_pow, values) ==
    [ k \in 1..Len(indices) |->
        [ buffer |-> buffer, idx |-> indices[k], gamma_pow |-> gamma_pow,
          value |-> values[k] ] ]

\* a learning step that leaves the n-step loss out of the sum
CombinedLoss_oneStepOnly(ag, loss_1, loss_n) ==
    [ k \in 1..Len(loss_1) |-> loss_1[k].value ]

\* lines 550-562: elementwise_loss, with elementwise_loss_n_loss added when
\* n-step learning is enabled
CombinedLoss(ag, loss_1, loss_n) ==
    [ k \in 1..Len(loss_1) |->
        IF ag.use_n_step THEN loss_1[k].value + loss_n[k].value
        ELSE loss_1[k].value ]

\* a priority without the prior_eps offset
NewPriorities_noEps(elementwise_loss) == elementwise_loss

\* lines 573-574: new_priorities = loss_for_prior + self.prior_eps
NewPriorities(elementwise_loss) ==
    [ k \in 1..Len(elementwise_loss) |-> elementwise_loss[k] + PriorEps ]

InitTrain ==
    /\ \E n \in 1..MaxNStep, b \in 1..BetaDen, tu \in 1..MaxTargetUpdate :
         /\ agent = DQNAgent_init(n, Rat(b, BetaDen), tu, NumFrames)
         /\ memory_n = ReplayBuffer_init(Capacity, n)
    /\ memory = PrioritizedReplayBuffer_init(Capacity, MaxAlpha, 1)
    /\ hist = <<>>
    /\ last = NoCall
    /\ proj = NoProjection

TrainSelectAction == SelectActionIn(TrainActions)

\* a running score that is carried over into the next episode
NewScore_keepRunning(ag, reward) == ag.score + reward

\* lines 599 and 614: score += reward, and score = 0 when the episode ended
NewScore(ag, reward) == IF ag.done THEN 0 ELSE ag.score + reward

TrainStep == StepIn(TrainRewards)

\* lines 598-614 and the test of line 617: state, score, beta, the end of
\* an episode
TrainFrame ==
    /\ agent.pc = "frame"
    /\ LET reward == agent.transition[3]
       IN  agent' = [agent EXCEPT
                       !.state = IF agent.done THEN agent.next_id
                                 ELSE agent.next_state,
                       !.next_id = IF agent.done THEN @ + 1 ELSE @,
                       !.score = NewScore(agent, reward),
                       !.scores = IF agent.done THEN Append(@, agent.score + reward)
                                  ELSE @,
                       !.beta = NewBeta(@, Fraction(agent.frame_idx,
                                                    agent.num_frames)),
                       !.pc = AfterFrame(agent, memory)]
    /\ UNCHANGED <<memory, memory_n, hist, last, proj>>

\* update_model, lines 543-547: samples = self.memory.sample_batch(self.beta)
LearnSample ==
    /\ agent.pc = "learn"
    /\ IF ~sample_batch_asserts(memory, agent.beta[1] > 0)
       THEN agent' = [agent EXCEPT !.trace = Append(@, "learn"),
                                   !.pc = "failed"]
       ELSE \E draws \in [1..BatchSize -> 0..DrawGrid] :
              agent' = [agent EXCEPT
                          !.batch = [NoBatch EXCEPT
                                       !.indices = sample_proportional(memory, draws)],
                          !.trace = Append(@, "learn"),
                          !.pc = "update"]
    /\ UNCHANGED <<memory, memory_n, hist, last, proj>>

\* update_model, lines 549-581, and lines 619-620 of train: the gradient
\* step on the online head, the new priorities, the noise of both heads,
\* the count of learning steps
LearnUpdate ==
    /\ agent.pc = "update"
    /\ \E losses \in [1..BatchSize -> LossPairs] :
         LET indices == agent.batch.indices
             values_1 == [k \in 1..BatchSize |-> losses[k][1]]
             values_n == [k \in 1..BatchSize |-> losses[k][2]]
             loss_1 == ElementwiseLoss("memory", indices, 1, values_1)
             loss_n == IF agent.use_n_step
                       THEN ElementwiseLoss("memory_n", indices, agent.n_step,
                                            values_n)
                       ELSE <<>>
             elementwise_loss == CombinedLoss(agent, loss_1, loss_n)
             new_priorities == NewPriorities(elementwise_loss)
             r == update_priorities(memory, indices, new_priorities)
             stepped == [agent EXCEPT
                           !.dqn.params = agent.update_cnt + 1,
                           !.batch = [ indices |-> indices,
                                       loss_1 |-> loss_1,
                                       loss_n |-> loss_n,
                                       grad |-> elementwise_loss,
                                       priorities |-> new_priorities ],
                           !.trace = Append(@, "update")]
             counted == [stepped EXCEPT
                           !.dqn = Network_reset_noise(
                                       @, "dqn", agent.update_cnt + 1),
                           !.dqn_target = Network_reset_noise(
                                       @, "dqn_target", agent.update_cnt + 1),
                           !.update_cnt = @ + 1]
         IN  /\ memory' = r.per
             /\ agent' = IF r.err
                         THEN [stepped EXCEPT !.pc = "failed"]
                         ELSE [counted EXCEPT !.pc = AfterLearn(counted)]
    /\ UNCHANGED <<memory_n, hist, last, proj>>

\* _target_hard_update (line 624): load_state_dict copies the parameters
\* and the buffers of the online head
TargetHardUpdate ==
    /\ agent.pc = "sync"
    /\ agent' = [agent EXCEPT !.dqn_target = agent.dqn,
                               !.trace = Append(@, "sync"),
                               !.pc = "act"]
    /\ UNCHANGED <<memory, memory_n, hist, last, proj>>

\* test(), lines 636-644, called once train has returned: test mode on and
\* a fresh episode
TestBegin ==
    /\ agent.pc = "act"
    /\ ~agent.is_test
    /\ agent.frame_idx = agent.num_frames
    /\ agent' = [agent EXCEPT !.is_test = TRUE,
                               !.state = agent.next_id,
                               !.next_id = @ + 1,
                               !.done = FALSE,
                               !.trace = <<>>]
    /\ UNCHANGED <<memory, memory_n, hist, last, proj>>

\* test(), lines 646-651: state = next_state, and the loop ends with the
\* episode
TestFrame ==
    /\ agent.pc = "test_frame"
    /\ agent' = [agent EXCEPT !.state = agent.next_state,
                               !.pc = IF agent.done THEN "tested" ELSE "act"]
    /\ UNCHANGED <<memory, memory_n, hist, last, proj>>

NextTrain ==
    TrainSelectAction \/ TrainStep \/ TrainFrame \/ LearnSample \/ LearnUpdate
    \/ TargetHardUpdate \/ TestBegin \/ TestFrame

SpecTrain == InitTrain /\ [][NextTrain]_vars

\* ------------------------------- specification: categorical projection
\* the bootstrap distributions: ProjMass units of mass over the atoms
NextDists ==
    { d \in [0..(AtomSize - 1) -> 0..ProjMass] : SumUpTo(d, AtomSize - 1) = ProjMass }

InitProj ==
    /\ memory = PrioritizedReplayBuffer_init(Capacity, 0, 1)
    /\ memory_n = ReplayBuffer_init(Capacity, 1)
    /\ hist = <<>>
    /\ last = NoCall
    /\ agent = DQNAgent_init(1, <<1, 1>>, 1, 0)
    /\ proj = NoProjection

\* the projection of one batch element in _compute_dqn_loss
Project ==
    /\ \E reward \in (-1)..MaxProjRew, done \in {0, 1}, next_dist \in NextDists :
         proj' = [ ran |-> TRUE, reward |-> reward, done |-> done,
                   next_dist |-> next_dist,
                   proj_dist |-> ProjDist(reward, done, next_dist) ]
    /\ UNCHANGED <<memory, memory_n, hist, last, agent>>

NextProj == Project

SpecProj == InitProj /\ [][NextProj]_vars

\* ------------------------------------------------ claims on ReplayBuffer
\* the transition held by slot j: rews_buf in units of 1 / GammaDen^(n-1),
\* done_buf as the float 0 / 1
Slot(buf, j) ==
    [ obs |-> buf.obs_buf[j], act |-> buf.acts_buf[j], rew |-> buf.rews_buf[j],
      next_obs |-> buf.next_obs_buf[j], done |-> buf.done_buf[j] ]

\* sum over k in 1..j of gamma^(k-1) * r_k, in units of 1 / GammaDen^(n-1)
RECURSIVE DiscountedSum(_, _)
DiscountedSum(win, j) ==
    IF j = 0 THEN 0
    ELSE DiscountedSum(win, j - 1)
         + Pow(GammaNum, j - 1) * Pow(GammaDen, Len(win) - j) * win[j].rew

TerminalIdx(win) == { k \in 1..Len(win) : win[k].done }
SetMax(S) == CHOOSE x \in S : \A y \in S : y <= x
SetMin(S) == CHOOSE x \in S : \A y \in S : x <= y

\* the window of the last store was full and a folded transition was
\* written; the slot it went to is the one before ptr
WindowFull(buf) == Len(buf.n_step_buffer) = buf.n_step /\ buf.size > 0
LastSlot(buf) == (buf.ptr + buf.max_size - 1) % buf.max_size

\* the folded transition cut at window position j (1-based), or at the
\* newest entry when j = 0
FoldedAt(win, j) ==
    LET c == IF j = 0 THEN Len(win) ELSE j
    IN  [ rew |-> DiscountedSum(win, c), next_obs |-> win[c].next_obs,
          done |-> BoolToFloat(win[c].done) ]

SlotFold(buf) ==
    LET s == Slot(buf, LastSlot(buf))
    IN  [ rew |-> s.rew, next_obs |-> s.next_obs, done |-> s.done ]

\* C3 (as stated): the folded transition written by store is cut at the
\* first done=True met scanning backward from the newest window entry (the
\* latest terminal entry), and takes its next-observation and done from it,
\* else from the newest entry
C3_Original ==
    WindowFull(memory_n) =>
        LET win == memory_n.n_step_buffer
            T == TerminalIdx(win)
        IN  SlotFold(memory_n) = FoldedAt(win, IF T = {} THEN 0 ELSE SetMax(T))

\* C3 (amended): the folded transition written by store is cut at the
\* oldest terminal entry of the window (the last done=True met scanning
\* backward from the newest entry) and takes its next-observation and done
\* from that entry; without a terminal entry it is the full discounted sum
\* with the newest entry's next-observation and done
C3_FoldCutAtOldestTerminal ==
    WindowFull(memory_n) =>
        LET win == memory_n.n_step_buffer
            T == TerminalIdx(win)
        IN  SlotFold(memory_n) = FoldedAt(win, IF T = {} THEN 0 ELSE SetMin(T))

\* a full window holding two terminal entries has been folded
C3_Witness ==
    /\ WindowFull(memory_n)
    /\ memory_n.n_step = 3
    /\ TerminalIdx(memory_n.n_step_buffer) = {1, 3}

\* C4: for a full window without terminal entry the written reward is
\* sum_{k<n} gamma^k r_k and the written done is False; when the entry at
\* position j < n-1 is the only terminal one the written reward is
\* sum_{k<=j} gamma^k r_k and the written done is True
C4_NStepReward ==
    WindowFull(memory_n) =>
        LET win == memory_n.n_step_buffer
            T == TerminalIdx(win)
            s == Slot(memory_n, LastSlot(memory_n))
        IN  /\ T = {} =>
                /\ s.rew = DiscountedSum(win, Len(win))
                /\ s.done = 0
            /\ \A j \in 1..(Len(win) - 1) :
                T = {j} =>
                    /\ s.rew = DiscountedSum(win, j)
                    /\ s.done = 1

\* n = 3 and only the middle transition (r1) is terminal: the written
\* reward is r0 + gamma r1 (in units of 1 / GammaDen^2) and done is True
C4_Witness ==
    /\ WindowFull(memory_n)
    /\ memory_n.n_step = 3
    /\ TerminalIdx(memory_n.n_step_buffer) = {2}
    /\ Slot(memory_n, LastSlot(memory_n)).rew
         = GammaDen * GammaDen * memory_n.n_step_buffer[1].rew
           + GammaNum * GammaDen * memory_n.n_step_buffer[2].rew
    /\ Slot(memory_n, LastSlot(memory_n)).done = 1

\* C5 (as stated): size == min(number of store calls, capacity) for every
\* n_step >= 1
C5_Original ==
    memory_n.size = Min2(Len(hist), memory_n.max_size)

\* the slot holding the oldest stored transition of a full buffer
OldestSlot(buf) ==
    CHOOSE j \in 0..(buf.max_size - 1) :
        \A i \in 0..(buf.max_size - 1) : buf.obs_buf[j] <= buf.obs_buf[i]

\* C5 (amended): after every store call size == min(max(0, number of store
\* calls - n_step + 1), capacity) and 0 <= ptr < capacity, and a store into
\* a full buffer overwrites the oldest slot and no other
C5_SizePtrRing ==
    [][ /\ memory_n'.size
            = Min2(Max2(0, Len(hist') - memory_n.n_step + 1), memory_n.max_size)
        /\ memory_n'.ptr \in 0..(memory_n.max_size - 1)
        /\ memory_n.size = memory_n.max_size =>
              /\ Slot(memory_n', OldestSlot(memory_n)).obs
                    = memory_n'.n_step_buffer[1].obs
              /\ \A i \in 0..(memory_n.max_size - 1) :
                    i # OldestSlot(memory_n)
                        => Slot(memory_n', i) = Slot(memory_n, i)
      ]_vars

\* a buffer with a 2-step window that has wrapped around
C5_Witness ==
    /\ memory_n.n_step = 2
    /\ memory_n.size = memory_n.max_size
    /\ Len(hist) > memory_n.max_size + 1

\* the transition handed to the i-th store call, as a slot of a buffer
\* with n_step = 1 holds it
AsSlot(t) ==
    [ obs |-> t.obs, act |-> t.act, rew |-> t.rew, next_obs |-> t.next_obs,
      done |-> BoolToFloat(t.done) ]

\* the k-th-from-last inserted transition (k = 1 is the last one)
FromLast(k) == hist[Len(hist) - k + 1]

\* C6 (as stated, n_step = 1): after k <= capacity inserts len == k; after
\* capacity + m inserts len == capacity and slot j holds the
\* (capacity + m - j)-th-from-last inserted transition
C6_Original ==
    memory_n.n_step = 1 =>
        LET cap == memory_n.max_size
        IN  /\ Len(hist) <= cap => BufLen(memory_n) = Len(hist)
            /\ Len(hist) >= cap =>
                /\ BufLen(memory_n) = cap
                /\ \A j \in 0..(cap - 1) :
                     Slot(memory_n, j) = AsSlot(FromLast(Len(hist) - j))

\* C6 (amended, n_step = 1): after k <= capacity inserts len == k; after
\* capacity + m inserts len == capacity and slot j holds the
\* (((capacity + m - 1 - j) mod capacity) + 1)-th-from-last inserted
\* transition, the latest one whose insertion number is j modulo capacity
C6_RingOverwrite ==
    memory_n.n_step = 1 =>
        LET cap == memory_n.max_size
        IN  /\ Len(hist) <= cap => BufLen(memory_n) = Len(hist)
            /\ Len(hist) >= cap =>
                /\ BufLen(memory_n) = cap
                /\ \A j \in 0..(cap - 1) :
                     Slot(memory_n, j)
                        = AsSlot(FromLast(((Len(hist) - 1 - j) % cap) + 1))

\* more than capacity transitions were inserted with n_step = 1
C6_Witness ==
    /\ memory_n.n_step = 1
    /\ Len(hist) > memory_n.max_size
    /\ Slot(memory_n, 0).obs = memory_n.max_size

\* C11 (as stated): store returns an empty result while the window holds
\* fewer than n transitions, and otherwise exactly one folded n-step
\* transition: observation and action of the oldest window entry, folded
\* reward, bootstrap next-observation and effective done, as written to the
\* slot
C11_Original ==
    last.op = "store" =>
        IF Len(hist) < memory_n.n_step
        THEN last.ret = <<>>
        ELSE /\ Len(last.ret) = 1
             /\ LET r == last.ret[1]
                     s == Slot(memory_n, LastSlot(memory_n))
                 IN  /\ r.obs = s.obs
                     /\ r.act = s.act
                     /\ r.rew * Pow(GammaDen, memory_n.n_step - 1) = s.rew
                     /\ r.next_obs = s.next_obs
                     /\ BoolToFloat(r.done) = s.done

\* C11 (amended): store returns an empty result while the window holds
\* fewer than n transitions, and otherwise exactly one transition, the
\* oldest window entry as it was handed to store n - 1 calls earlier: its
\* observation and action, and its own 1-step reward, next-observation and
\* done flag
C11_StoreReturnsOldestEntry ==
    last.op = "store" =>
        IF Len(hist) < memory_n.n_step
        THEN last.ret = <<>>
        ELSE /\ last.ret = <<hist[Len(hist) - memory_n.n_step + 1]>>
             /\ last.ret[1].obs = Slot(memory_n, LastSlot(memory_n)).obs
             /\ last.ret[1].act = Slot(memory_n, LastSlot(memory_n)).act

\* a store with a full 2-step window and no terminal entry: the returned
\* reward is r0 while the slot holds r0 + gamma r1, and the returned
\* next-observation is not the bootstrap one
C11_Witness ==
    /\ last.op = "store"
    /\ memory_n.n_step = 2
    /\ last.ret # <<>>
    /\ TerminalIdx(memory_n.n_step_buffer) = {}
    /\ last.ret[1].rew * GammaDen < Slot(memory_n, LastSlot(memory_n)).rew
    /\ last.ret[1].next_obs # Slot(memory_n, LastSlot(memory_n)).next_obs

\* ------------------------------------- claims on PrioritizedReplayBuffer
\* the step is a call of the given operation on memory
IsCall(op) == last.op = "none" /\ last'.op = op

SeqMax(q) == SetMax({ q[k] : k \in 1..Len(q) })

\* C7: max_priority is 1.0 at construction, no store, sample_batch or
\* update_priorities call decreases it, and a successful
\* update_priorities(indices, priorities) leaves it at
\* max(previous max_priority, largest element of priorities)
C7_MaxPriorityMonotonic ==
    /\ last.op # "init" => memory.max_priority = PUnit
    /\ [][ /\ memory'.max_priority >= memory.max_priority
           /\ (IsCall("update") /\ ~last'.err /\ last'.priorities # <<>>) =>
                 memory'.max_priority
                    = Max2(memory.max_priority, SeqMax(last'.priorities))
         ]_vars

\* update_priorities with priorities [3.0, 1.0] succeeded and left
\* max_priority at 3.0
C7_Witness ==
    /\ last.op = "update"
    /\ ~last.err
    /\ last.priorities = <<3 * PUnit, PUnit>>
    /\ memory.max_priority = 3 * PUnit

\* C8: when the underlying store writes a transition, store sets the leaf
\* of the slot the transition was written to, in the sum tree and in the
\* min tree, to max_priority^alpha and advances tree_ptr by one modulo the
\* capacity; when no transition is written neither tree changes
C8_StorePriority ==
    [][ IsCall("store") =>
          IF last'.ret # <<>>
          THEN LET slot == memory.ptr
               IN  /\ Slot(memory', slot).obs = last'.ret[1].obs
                   /\ Leaf(memory'.sum_tree, memory.tree_capacity, slot)
                        = Pow(memory.max_priority, memory.alpha)
                   /\ Leaf(memory'.min_tree, memory.tree_capacity, slot)
                        = Pow(memory.max_priority, memory.alpha)
                   /\ memory'.tree_ptr = (memory.tree_ptr + 1) % memory.max_size
          ELSE /\ memory'.sum_tree = memory.sum_tree
               /\ memory'.min_tree = memory.min_tree
      ]_vars

\* a transition was stored after max_priority had grown to 3.0: its leaf
\* holds 3.0^alpha, alpha = 1
C8_Witness ==
    /\ last.op = "store"
    /\ last.ret # <<>>
    /\ memory.alpha = 1
    /\ memory.max_priority = 3 * PUnit
    /\ Leaf(memory.sum_tree, memory.tree_capacity, LastSlot(memory))
         = 3 * PUnit

\* the smallest priority^alpha over the populated slots of the buffer
BufferMinLeaf(per) ==
    SetMin({ Leaf(per.sum_tree, per.tree_capacity, i) : i \in 0..(BufLen(per) - 1) })

\* C9: sample_batch(beta) succeeds whenever size >= batch_size and
\* beta > 0, every importance weight it returns lies in (0, 1], and the
\* weight of a sampled slot whose priority is the minimum over the entire
\* buffer is exactly 1
C9_WeightsInUnitInterval ==
    last.op = "sample" =>
        /\ (BufLen(memory) >= BatchSize /\ last.beta > 0) => ~last.err
        /\ ~last.err =>
              \A i \in 1..BatchSize :
                 LET w == last.weights[i]
                     leaf == Leaf(memory.sum_tree, memory.tree_capacity,
                                  last.indices[i])
                 IN  /\ 0 < w[1]
                     /\ w[1] <= w[2]
                     /\ leaf = BufferMinLeaf(memory) => w[1] = w[2]

\* a batch holding the minimum-priority slot (weight 1) and a slot of
\* higher priority (weight below 1)
C9_Witness ==
    /\ last.op = "sample"
    /\ ~last.err
    /\ \E i, j \in 1..BatchSize :
          /\ last.weights[i][1] = last.weights[i][2]
          /\ last.weights[j][1] < last.weights[j][2]

\* the priority of the last pair of the call that names index idx
LastPriorityFor(indices, priorities, idx) ==
    priorities[SetMax({ k \in 1..Len(indices) : indices[k] = idx })]

\* C10: update_priorities(indices, priorities) fails when the lengths
\* differ, when a priority is <= 0 or when an index is outside
\* [0, len(buffer)), and only then; otherwise every pair has set leaf idx
\* of the sum tree and of the min tree to priority^alpha (for an index
\* named twice the later pair is the one that remains)
C10_UpdatePriorities ==
    last.op = "update" =>
        LET indices == last.indices
            priorities == last.priorities
            bad == \/ Len(indices) # Len(priorities)
                   \/ \E k \in 1..Len(priorities) : priorities[k] <= 0
                   \/ \E k \in 1..Len(indices) :
                         ~(0 <= indices[k] /\ indices[k] < BufLen(memory))
        IN  /\ last.err <=> bad
            /\ ~last.err =>
                  \A k \in 1..Len(indices) :
                     LET v == Pow(LastPriorityFor(indices, priorities, indices[k]),
                                  memory.alpha)
                     IN  /\ Leaf(memory.sum_tree, memory.tree_capacity, indices[k]) = v
                         /\ Leaf(memory.min_tree, memory.tree_capacity, indices[k]) = v

\* a successful update of two different slots with two different
\* priorities, alpha = 1
C10_Witness ==
    /\ last.op = "update"
    /\ ~last.err
    /\ memory.alpha = 1
    /\ last.indices = <<1, 0>>
    /\ last.priorities = <<3 * PUnit, 1>>
    /\ Leaf(memory.sum_tree, memory.tree_capacity, 1) = 3 * PUnit
    /\ Leaf(memory.min_tree, memory.tree_capacity, 1) = 3 * PUnit
    /\ Leaf(memory.sum_tree, memory.tree_capacity, 0) = 1
    /\ Leaf(memory.min_tree, memory.tree_capacity, 0) = 1

\* C16 (as stated): constructing a PrioritizedReplayBuffer with
\* alpha <= 0, alpha = 0 included, fails, and sample_batch with beta <= 0
\* fails, instead of proceeding
C16_Original ==
    /\ last.op = "init" => (last.err /\ memory = NoBuffer)
    /\ last.op # "init" => memory.alpha > 0
    /\ (last.op = "sample" /\ last.beta <= 0) =>
          (last.err /\ last.indices = <<>> /\ last.weights = <<>>)

\* C16 (amended): constructing a PrioritizedReplayBuffer fails exactly when
\* alpha < 0 (alpha = 0 is accepted), and sample_batch with beta <= 0 fails
\* without sampling
C16_NegativeAlphaNonPositiveBeta ==
    /\ last.op = "init" => (last.err /\ last.alpha < 0 /\ memory = NoBuffer)
    /\ last.op # "init" => memory.alpha >= 0
    /\ (last.op = "sample" /\ last.beta <= 0) =>
          (last.err /\ last.indices = <<>> /\ last.weights = <<>>)

\* a buffer built with alpha = 0 holds enough transitions, and a
\* sample_batch with beta = 0 failed on it
C16_Witness ==
    /\ memory # NoBuffer
    /\ memory.alpha = 0
    /\ BufLen(memory) >= BatchSize
    /\ last.op = "sample"
    /\ last.beta = 0
    /\ last.err

\* the sum of the leaves 0..i of a sum tree
PrefixSum(tree, capacity, i) == SumTree_sum(tree, capacity, 0, i)

\* retrieve(target) on tree gave index i with
\* prefix(i - 1) < target <= prefix(i)
RetrieveBrackets(tree, capacity, target, i) ==
    /\ PrefixSum(tree, capacity, i) >= target
    /\ PrefixSum(tree, capacity, i - 1) < target

\* C20: after any sequence of updates of the sum tree, retrieve(target)
\* for a target strictly inside (0, total) returns an index i such that
\* the prefix sum up to and including leaf i is >= target and the prefix
\* sum up to leaf i - 1 is < target: for every whole target of the tree of
\* the buffer, and for the targets of the last sample_batch
C20_RetrievePrefix ==
    last.op # "init" =>
        /\ \A target \in 1..(SumTree_total(memory.sum_tree) - 1) :
              RetrieveBrackets(memory.sum_tree, memory.tree_capacity, target,
                  SumTree_retrieve(memory.sum_tree, memory.tree_capacity, 1, target))
        /\ (last.op = "sample" /\ ~last.err) =>
              LET scaled == Scaled(memory.sum_tree, DrawGrid * memory.batch_size)
              IN  \A k \in 1..memory.batch_size :
                    (0 < last.targets[k] /\ last.targets[k] < SumTree_total(scaled))
                        => RetrieveBrackets(scaled, memory.tree_capacity,
                                            last.targets[k], last.indices[k])

\* a sample_batch on a tree with two different leaves drew a point
\* strictly inside (0, total) and retrieve answered with the second leaf
C20_Witness ==
    /\ last.op = "sample"
    /\ ~last.err
    /\ Leaf(memory.sum_tree, memory.tree_capacity, 0)
          # Leaf(memory.sum_tree, memory.tree_capacity, 1)
    /\ \E k \in 1..memory.batch_size :
          /\ 0 < last.targets[k]
          /\ last.targets[k]
                < SumTree_total(Scaled(memory.sum_tree, DrawGrid * memory.batch_size))
          /\ last.indices[k] = 1

\* the slots of the scenario were inserted and then updated to
\* [1, .., 1, ScenHigh]
ScenPrepared ==
    /\ BufLen(memory) = ScenCapacity
    /\ \A k \in 1..ScenCapacity :
          Leaf(memory.sum_tree, memory.tree_capacity, k - 1) = ScenPriorities[k]

\* the number of draws of a batch that selected slot idx
Hits(indices, idx) == Cardinality({ k \in 1..Len(indices) : indices[k] = idx })

\* C19 (as stated): on a buffer of capacity 4 with alpha = 1 whose slots
\* were inserted with priorities [1,1,1,1] and updated to [1,1,1,100], a
\* sample_batch with batch_size = 100 and beta = 1 succeeds and selects
\* index 3 in more than 50% of its draws
C19_Original ==
    (ScenPrepared /\ last.op = "sample" /\ memory.batch_size = ScenBatch) =>
        /\ ~last.err
        /\ 2 * Hits(last.indices, ScenCapacity - 1) > memory.batch_size

\* C19 (amended): on that buffer a sample_batch with beta = 1 fails when
\* batch_size exceeds the 4 buffered transitions (batch_size = 100) and
\* succeeds otherwise; with batch_size 3 or 4 it selects index 3 in more
\* than 50% of its draws
C19_HighPrioritySlotDominates ==
    (ScenPrepared /\ last.op = "sample") =>
        /\ last.err <=> memory.batch_size > ScenCapacity
        /\ (~last.err /\ memory.batch_size >= 3) =>
              2 * Hits(last.indices, ScenCapacity - 1) > memory.batch_size

\* a batch as large as the buffer: the draw of the first segment fell on
\* slot 0, every other draw on the high-priority slot
C19_Witness ==
    /\ ScenPrepared
    /\ last.op = "sample"
    /\ ~last.err
    /\ memory.batch_size = ScenCapacity
    /\ last.indices[1] = 0
    /\ Hits(last.indices, ScenCapacity - 1) = ScenCapacity - 1

\* ------------------------------------------------------ claims on DQNAgent
\* C1: with n_step > 1, memory and memory_n have equal ptr and equal size
\* and every slot i < size holds the same observation and the same action
\* in both buffers
C1_BuffersAligned ==
    agent.use_n_step =>
        /\ memory.ptr = memory_n.ptr
        /\ memory.size = memory_n.size
        /\ \A i \in 0..(memory.size - 1) :
              /\ memory.obs_buf[i] = memory_n.obs_buf[i]
              /\ memory.acts_buf[i] = memory_n.acts_buf[i]

\* two folded transitions were stored with a 3-step window; slot 1 holds
\* the experience of frame 2 in both buffers, with the raw reward in memory
\* and the folded 3-step reward in memory_n
C1_Witness ==
    /\ agent.n_step = 3
    /\ Len(hist) = 4
    /\ memory.size = 2
    /\ memory.ptr = memory_n.ptr
    /\ memory.obs_buf[1] = hist[2].obs
    /\ memory_n.obs_buf[1] = hist[2].obs
    /\ memory.rews_buf[1] = hist[2].rew
    /\ memory_n.rews_buf[1] > GammaDen * GammaDen * memory.rews_buf[1]

\* C12 (as stated): with n-step learning enabled the transition written
\* into memory on each store is the folded n-step transition: folded reward,
\* bootstrap next-observation and effective done of the window, as memory_n
\* holds them in the same slot
C12_Original ==
    (agent.use_n_step /\ memory.size > 0) =>
        LET s == Slot(memory, LastSlot(memory))
            f == Slot(memory_n, LastSlot(memory_n))
        IN  /\ s.rew * Pow(GammaDen, agent.n_step - 1) = f.rew
            /\ s.next_obs = f.next_obs
            /\ s.done = f.done

\* C12 (amended): with n-step learning enabled the transition written into
\* memory on each store is the raw 1-step transition of the oldest window
\* entry (the experience of n - 1 frames earlier with its own reward,
\* next-observation and done flag); the folded transition is written into
\* memory_n only
C12_MemoryHoldsOneStep ==
    (agent.use_n_step /\ memory.size > 0) =>
        /\ Len(hist) >= agent.n_step
        /\ Slot(memory, LastSlot(memory))
              = AsSlot(hist[Len(hist) - agent.n_step + 1])

\* frames were stored with a 3-step window without terminal entry: the
\* reward in memory is r0 alone, below the folded reward in memory_n, and
\* the next-observations of the two buffers differ
C12_Witness ==
    /\ agent.n_step = 3
    /\ memory.size > 0
    /\ TerminalIdx(memory_n.n_step_buffer) = {}
    /\ Slot(memory, LastSlot(memory)).rew * GammaDen * GammaDen
          < Slot(memory_n, LastSlot(memory_n)).rew
    /\ Slot(memory, LastSlot(memory)).next_obs
          # Slot(memory_n, LastSlot(memory_n)).next_obs

\* ------------------------------------------- claims on DQNAgent.train
\* C13: on every frame a learning step runs if and only if
\* len(memory) >= batch_size after that frame's store, and sample_batch is
\* only ever called with size >= batch_size and beta > 0, so that it does
\* not fail
C13_LearnIffReady ==
    [][ /\ agent.pc = "frame" =>
              (agent'.pc = "learn" <=> BufLen(memory') >= BatchSize)
        /\ agent'.pc = "learn" => agent.pc = "frame"
        /\ agent.pc = "learn" =>
              /\ BufLen(memory) >= BatchSize
              /\ agent.beta[1] > 0
              /\ agent'.pc = "update"
      ]_vars

\* the first learning step, on the frame that brought a 2-step buffer to
\* batch_size transitions, with beta still below 1
C13_Witness ==
    /\ agent.pc = "update"
    /\ agent.n_step = 2
    /\ agent.update_cnt = 0
    /\ BufLen(memory) = BatchSize
    /\ agent.frame_idx = BatchSize + 1
    /\ agent.beta[1] < agent.beta[2]

\* C14: the target head's parameters are copied from the online head
\* exactly after the learning steps whose running count is a positive
\* multiple of target_update, and change at no other point
C14_TargetSync ==
    [][ /\ agent.pc # "sync" =>
              agent'.dqn_target.params = agent.dqn_target.params
        /\ agent.pc = "sync" =>
              /\ agent'.dqn_target.params = agent.dqn.params
              /\ agent.update_cnt > 0
              /\ agent.update_cnt % agent.target_update = 0
        /\ agent'.pc = "sync" => agent.pc = "update"
        /\ (agent.pc = "update" /\ agent'.pc # "failed") =>
              /\ agent'.update_cnt = agent.update_cnt + 1
              /\ agent'.pc = "sync"
                    <=> agent'.update_cnt % agent.target_update = 0
      ]_vars

\* with target_update = 2 the second learning step was followed by a copy
\* of the online parameters, the first one was not
C14_Witness ==
    /\ agent.target_update = 2
    /\ agent.update_cnt = 2
    /\ agent.trace = <<"act", "step", "store", "learn", "update", "sync">>
    /\ agent.dqn_target.params = agent.dqn.params
    /\ agent.dqn.params = 2

\* the sequences of operations of a whole frame
FrameTraces ==
    { <<"act", "step", "store">>,
      <<"act", "step", "store", "learn", "update">>,
      <<"act", "step", "store", "learn", "update", "sync">> }

IsPrefix(p, q) == Len(p) <= Len(q) /\ p = SubSeq(q, 1, Len(p))

\* C15: every frame performs act, environment step, store, then
\* conditionally a learning step, then conditionally a target sync, in this
\* order; when the next action is selected the frame is complete and a
\* learning step of the frame has written the new priorities of the batch
\* to both trees
C15_FrameOrder ==
    [][ /\ \E f \in FrameTraces : IsPrefix(agent'.trace, f)
        /\ (agent'.trace = <<"act">> /\ agent.trace # <<>>) =>
              /\ agent.trace \in FrameTraces
              /\ Len(agent.trace) > 3 =>
                    /\ Len(agent.batch.priorities) = BatchSize
                    /\ \A k \in 1..BatchSize :
                          LET idx == agent.batch.indices[k]
                              v == Pow(LastPriorityFor(agent.batch.indices,
                                           agent.batch.priorities, idx),
                                       memory.alpha)
                          IN  /\ Leaf(memory.sum_tree, memory.tree_capacity, idx) = v
                              /\ Leaf(memory.min_tree, memory.tree_capacity, idx) = v
      ]_vars

\* an action was selected right after a frame that learned and synced
C15_Witness ==
    /\ agent.trace = <<"act">>
    /\ agent.pc = "step"
    /\ agent.update_cnt = 2
    /\ agent.dqn_target.params = 2
    /\ Len(agent.batch.priorities) = BatchSize

\* C17: for an initial beta in (0, 1], beta never decreases from frame to
\* frame, never exceeds 1.0 and is 1.0 after the last frame
\* (frame_idx == num_frames)
C17_BetaMonotonic ==
    [][ /\ RatLeq(agent.beta, agent'.beta)
        /\ RatLeq(agent'.beta, <<1, 1>>)
        /\ (agent.pc = "frame" /\ agent.frame_idx = agent.num_frames) =>
              agent'.beta = <<1, 1>>
      ]_vars

\* training started with the smallest initial beta, beta grew on the way
\* and the last frame left it at 1.0
C17_Witness ==
    /\ agent.frame_idx = agent.num_frames
    /\ agent.pc \notin {"step", "frame"}
    /\ agent.beta_0 = Rat(1, BetaDen)
    /\ agent.beta = <<1, 1>>

\* the number of frames whose beta update has been made
FramesDone(ag) ==
    IF ag.pc \in {"step", "frame"} THEN ag.frame_idx - 1 ELSE ag.frame_idx

\* C18: after frame t of num_frames
\* beta == beta_0 + (t / num_frames) * (1 - beta_0)
C18_LinearBeta ==
    agent.beta
      = RatAdd(agent.beta_0,
               RatMul(Rat(FramesDone(agent), agent.num_frames),
                      RatSub(<<1, 1>>, agent.beta_0)))

\* ------------------------------------- claims on the categorical projection
\* C2: the projected target distribution carries the same probability mass
\* as the bootstrap distribution it was computed from (proj_dist is in
\* units of 1 / BDen), also when t_z is clamped and when b is an integer
C2_MassConserved ==
    proj.ran =>
        SumUpTo(proj.proj_dist, AtomSize - 1)
            = BDen * SumUpTo(proj.next_dist, AtomSize - 1)

\* --------------------------- claims on the leaves of the priority trees
\* C21: in every reachable state of a prioritized buffer, every populated
\* slot i < size has the same strictly positive value priority^alpha in the
\* sum-tree leaf and in the min-tree leaf, and every other leaf, those
\* between the buffer capacity and the tree capacity included, holds 0 in
\* the sum tree and +infinity in the min tree
C21_LeavesMatchSize ==
    \A i \in 0..(memory.tree_capacity - 1) :
        LET s == Leaf(memory.sum_tree, memory.tree_capacity, i)
            m == Leaf(memory.min_tree, memory.tree_capacity, i)
        IN  IF i < memory.size
            THEN /\ s = m
                 /\ s > 0
                 /\ \E p \in 1..(3 * PUnit) : s = Pow(p, memory.alpha)
            ELSE s = 0 /\ m = Inf

\* a successful update raised the leaf of slot 0 while one slot of the
\* buffer is still unused and the trees have a leaf beyond the capacity
C21_Witness ==
    /\ last.op = "update"
    /\ ~last.err
    /\ memory.alpha = 1
    /\ memory.size = 2
    /\ memory.max_size = 3
    /\ memory.tree_capacity = 4
    /\ Leaf(memory.sum_tree, memory.tree_capacity, 0) = 3 * PUnit
    /\ Leaf(memory.sum_tree, memory.tree_capacity, 1) = PUnit

\* C27: tree_ptr == ptr in every reachable state, for any n_step: a store
\* that returns a transition writes the priority leaf of the slot it wrote
\* and advances both pointers, a store during the warm-up of the n-step
\* window moves neither pointer and writes no leaf
C27_TreePtrIsPtr ==
    [][ /\ memory.tree_ptr = memory.ptr
        /\ memory'.tree_ptr = memory'.ptr
        /\ IsCall("store") =>
             IF last'.ret = <<>>
             THEN /\ memory'.ptr = memory.ptr
                  /\ memory'.sum_tree = memory.sum_tree
                  /\ memory'.min_tree = memory.min_tree
             ELSE /\ memory'.ptr = (memory.ptr + 1) % memory.max_size
                  /\ memory'.tree_ptr = (memory.tree_ptr + 1) % memory.max_size
                  /\ memory'.obs_buf[memory.ptr] = last'.ret[1].obs
      ]_vars

\* with a two-step window the first store was a warm-up store, and the
\* ring of three slots has just wrapped
C27_Witness ==
    /\ last.op = "store"
    /\ memory.n_step = 2
    /\ memory.max_size = 3
    /\ memory.size = 3
    /\ memory.ptr = 0
    /\ memory.tree_ptr = 0
    /\ Len(hist) = 4

\* ------------------------------------ claims on the boundary of an episode
\* the window with every entry after position j replaced by t
ReplaceAfter(win, j, t) ==
    [k \in 1..Len(win) |-> IF k <= j THEN win[k] ELSE t]

\* the last k arguments of store, oldest first
LastStores(k) == SubSeq(hist, Len(hist) - k + 1, Len(hist))

\* C22: no reward leaks across an episode boundary. The n-step window is
\* never cleared, it always holds the latest min(n_step, calls) stores,
\* terminal ones included; yet the reward, next-observation and done
\* written for a full window depend only on the entries up to and including
\* the oldest terminal one: replacing every later entry leaves them as they
\* are, and a window whose oldest entry is terminal yields that entry's own
\* reward, its next-observation and done = True
C22_NoLeakAcrossEpisodes ==
    /\ memory_n.n_step_buffer = LastStores(Min2(memory_n.n_step, Len(hist)))
    /\ WindowFull(memory_n) =>
        LET win == memory_n.n_step_buffer
            T == TerminalIdx(win)
            s == SlotFold(memory_n)
        IN  T # {} =>
              /\ \A r \in 0..MaxRew, d \in BOOLEAN :
                   get_n_step_info(
                       ReplaceAfter(win, SetMin(T),
                                    [obs |-> 0, act |-> 0, rew |-> r,
                                     next_obs |-> 0, done |-> d]))
                     = [rew |-> s.rew, next_obs |-> s.next_obs,
                        done |-> s.done = 1]
              /\ win[1].done =>
                   /\ s.rew = win[1].rew * Pow(GammaDen, Len(win) - 1)
                   /\ s.next_obs = win[1].next_obs
                   /\ s.done = 1

\* the oldest entry of a full window of three ended an episode and the two
\* entries after it, with rewards of their own, belong to the next episode
C22_Witness ==
    /\ WindowFull(memory_n)
    /\ memory_n.n_step = 3
    /\ TerminalIdx(memory_n.n_step_buffer) = {1}
    /\ memory_n.n_step_buffer[2].rew > 0
    /\ memory_n.n_step_buffer[3].rew > 0
    /\ Len(hist) > 3

\* ------------------------------------------ claims on stratified sampling
\* the leaves of the populated slots 0..len-1 of the sum tree, added up
RECURSIVE PopulatedSum(_, _)
PopulatedSum(per, n) ==
    IF n = 0 THEN 0
    ELSE PopulatedSum(per, n - 1) + Leaf(per.sum_tree, per.tree_capacity, n - 1)

BadPairs(per, indices, priorities) ==
    { k \in 1..Len(indices) :
        \/ priorities[k] <= 0
        \/ indices[k] < 0
        \/ indices[k] >= BufLen(per) }

\* the priority of the last of the first n pairs that names slot idx, 0
\* when none does
RECURSIVE LastAmong(_, _, _, _)
LastAmong(indices, priorities, idx, n) ==
    IF n = 0 THEN 0
    ELSE IF indices[n] = idx THEN priorities[n]
    ELSE LastAmong(indices, priorities, idx, n - 1)

\* buffer after is buffer before with exactly the first n pairs applied
FirstPairsApplied(before, after, indices, priorities, n) ==
    /\ \A i \in 0..(before.tree_capacity - 1) :
         LET p == LastAmong(indices, priorities, i, n)
             v == IF p = 0 THEN Leaf(before.sum_tree, before.tree_capacity, i)
                  ELSE Pow(p, before.alpha)
             w == IF p = 0 THEN Leaf(before.min_tree, before.tree_capacity, i)
                  ELSE Pow(p, before.alpha)
         IN  /\ Leaf(after.sum_tree, after.tree_capacity, i) = v
             /\ Leaf(after.min_tree, after.tree_capacity, i) = w
    /\ after.max_priority
         = SetMax({before.max_priority} \cup { priorities[k] : k \in 1..n })

\* C30: update_priorities applies its pairs in order and is not atomic.
\* When the check fails at the k-th pair (priority <= 0 or index out of
\* range) the leaves of both trees and max_priority reflect the pairs
\* 1..k-1 and no later pair; with indices and priorities of different
\* lengths the call fails before anything is modified
C30_UpdateNotAtomic ==
    [][ IsCall("update") =>
          LET indices == last'.indices
              priorities == last'.priorities
              bad == BadPairs(memory, indices, priorities)
          IN  IF Len(indices) # Len(priorities)
              THEN last'.err /\ memory' = memory
              ELSE bad # {} =>
                     /\ last'.err
                     /\ last'.applied = SetMin(bad) - 1
                     /\ FirstPairsApplied(memory, memory', indices, priorities,
                                          SetMin(bad) - 1)
      ]_vars

\* the second pair of an update named a slot out of range: the call
\* failed, the first pair had raised the leaf of slot 0 and max_priority
C30_Witness ==
    /\ last.op = "update"
    /\ last.err
    /\ last.applied = 1
    /\ last.indices = <<0, Capacity>>
    /\ last.priorities = <<3 * PUnit, 1>>
    /\ memory.alpha = 1
    /\ Leaf(memory.sum_tree, memory.tree_capacity, 0) = 3 * PUnit
    /\ Leaf(memory.min_tree, memory.tree_capacity, 0) = 3 * PUnit
    /\ memory.max_priority = 3 * PUnit

\* ---------------------------------------- claims on the frames of train
\* C26: on a frame of train where the environment reports done, the
\* environment is reset (the next state is a fresh observation, not the
\* terminal one), the score of the finished episode is recorded and the
\* running score is reset to 0, while both replay buffers (slots, ptr,
\* size, priority trees, n-step window) stay as they are
C26_EpisodeEnd ==
    [][ (agent.pc = "frame" /\ agent.done) =>
          /\ agent'.state = agent.next_id
          /\ agent'.state # agent.next_state
          /\ agent'.scores = Append(agent.scores,
                                    agent.score + agent.transition[3])
          /\ agent'.score = 0
          /\ memory' = memory
          /\ memory_n' = memory_n
      ]_vars

\* an episode of two frames has just ended: its score is recorded, the
\* running score is 0, and the n-step window still holds the terminal
\* transition together with the one before it
C26_Witness ==
    /\ agent.pc \in {"act", "learn"}
    /\ agent.done
    /\ agent.frame_idx = 2
    /\ agent.scores = <<2>>
    /\ agent.score = 0
    /\ agent.state = agent.next_state + 1
    /\ Len(memory_n.n_step_buffer) = 2
    /\ memory_n.n_step_buffer[2].done
    /\ memory.size > 0

\* the frames whose transition has been handed to the buffers
FramesStored(ag) ==
    IF ag.pc = "step" /\ ~ag.is_test THEN ag.frame_idx - 1 ELSE ag.frame_idx

\* the first frame with enough stored transitions for a batch
FirstLearnFrame(ag) == BatchSize + ag.n_step - 1

HasLearned(ag) == \E k \in 1..Len(ag.trace) : ag.trace[k] = "learn"

\* C28: with n-step learning enabled, after frame t both buffers hold
\* min(max(0, t - n_step + 1), memory_size) transitions; hence, with
\* memory_size >= batch_size, no learning step runs before frame
\* batch_size + n_step - 1, one runs on that frame and on every later one
C28_WarmUpLength ==
    agent.use_n_step =>
        LET expected == Min2(Max2(0, FramesStored(agent) - agent.n_step + 1),
                             memory.max_size)
        IN  /\ BufLen(memory) = expected
            /\ BufLen(memory_n) = expected
            /\ (memory.max_size >= BatchSize /\ ~agent.is_test) =>
                 /\ HasLearned(agent) => agent.frame_idx >= FirstLearnFrame(agent)
                 /\ agent.pc = "act" =>
                      /\ HasLearned(agent)
                           <=> agent.frame_idx >= FirstLearnFrame(agent)
                      /\ agent.update_cnt
                           = Max2(0, agent.frame_idx - FirstLearnFrame(agent) + 1)

\* with a window of two, frame 4 was the second frame with a learning step
\* and the buffers are full
C28_Witness ==
    /\ agent.n_step = 2
    /\ agent.pc = "act"
    /\ agent.frame_idx = BatchSize + 2
    /\ agent.update_cnt = 2
    /\ HasLearned(agent)
    /\ BufLen(memory) = Capacity
    /\ BufLen(memory_n) = Capacity

\* ------------------------------------------------- claims on the noise
\* a learning step has run to its end
LearningStepDone == agent.pc = "update" /\ agent'.pc \in {"act", "sync"}

\* C25: every learning step ends with new noise on the online and on the
\* target head, in each of the four noisy sub-layers; no other step of the
\* agent changes the epsilon of either head, so epsilon is fixed between
\* two learning steps and during the warm-up
C25_NoiseLifecycle ==
    [][ IF LearningStepDone
        THEN \A l \in NoisyLayers :
               /\ agent'.dqn.noise[l] # agent.dqn.noise[l]
               /\ agent'.dqn_target.noise[l] # agent.dqn_target.noise[l]
               /\ agent'.dqn.noise[l] # agent'.dqn_target.noise[l]
        ELSE /\ agent'.dqn.noise = agent.dqn.noise
             /\ agent'.dqn_target.noise = agent.dqn_target.noise
      ]_vars

\* ------------------------------------------- claims on the learning step
\* C24: in update_model with n-step learning enabled, the priority handed
\* to update_priorities for each sampled index is the 1-step loss (computed
\* with gamma on memory at that index) plus the n-step loss (computed with
\* gamma^n_step on memory_n at the same index) plus prior_eps; the same sum
\* of the two losses is the elementwise loss of the gradient step, and
\* every priority handed over is strictly positive
C24_CombinedLossPriorities ==
    (agent.use_n_step /\ agent.batch.priorities # <<>>) =>
        LET b == agent.batch
        IN  /\ Len(b.priorities) = Len(b.indices)
            /\ \A k \in 1..Len(b.indices) :
                 /\ b.loss_1[k].buffer = "memory"
                 /\ b.loss_1[k].idx = b.indices[k]
                 /\ b.loss_1[k].gamma_pow = 1
                 /\ b.loss_n[k].buffer = "memory_n"
                 /\ b.loss_n[k].idx = b.indices[k]
                 /\ b.loss_n[k].gamma_pow = agent.n_step
                 /\ b.priorities[k]
                      = b.loss_1[k].value + b.loss_n[k].value + PriorEps
                 /\ b.grad[k] = b.loss_1[k].value + b.loss_n[k].value
                 /\ b.priorities[k] > 0

\* a learning step with a window of two: the priority of one element of
\* the batch came from a large 1-step loss, that of another from its
\* n-step loss
C24_Witness ==
    /\ agent.n_step = 2
    /\ agent.pc \in {"act", "sync"}
    /\ Len(agent.batch.priorities) = BatchSize
    /\ agent.batch.indices[1] # agent.batch.indices[BatchSize]
    /\ agent.batch.loss_1[1].value > 0
    /\ agent.batch.loss_n[1].value = 0
    /\ agent.batch.priorities[1] = 3 * PUnit
    /\ agent.batch.loss_1[BatchSize].value = 0
    /\ agent.batch.loss_n[BatchSize].value > 0
    /\ agent.batch.priorities[BatchSize] = 1 + PriorEps

\* ------------------------------------------------- claims on test mode
\* C29: while the agent is in test mode, select_action and step leave all
\* replay state as it is: the slots, ptr, size and n-step window of memory
\* and memory_n, tree_ptr, both priority trees, max_priority and the
\* pending self.transition; no learning step and no target sync is made
C29_TestModeReadOnly ==
    [][ agent.is_test =>
          /\ memory' = memory
          /\ memory_n' = memory_n
          /\ hist' = hist
          /\ agent'.transition = agent.transition
          /\ agent'.update_cnt = agent.update_cnt
          /\ agent'.dqn = agent.dqn
          /\ agent'.dqn_target = agent.dqn_target
          /\ agent'.batch = agent.batch
          /\ agent'.pc \in {"act", "step", "test_frame", "tested"}
      ]_vars

\* a test episode of two steps has ended on an agent whose memory holds
\* enough transitions for a learning step; the pending transition is still
\* the one of the last frame of train
C29_Witness ==
    /\ agent.is_test
    /\ agent.pc = "tested"
    /\ agent.test_steps = 2
    /\ LearnReady(memory)
    /\ Len(agent.transition) = 5
    /\ agent.transition = <<hist[Len(hist)].obs, hist[Len(hist)].act,
                            hist[Len(hist)].rew, hist[Len(hist)].next_obs,
                            hist[Len(hist)].done>>
    /\ agent.next_state > agent.transition[4] + 1
    /\ Len(memory_n.n_step_buffer) = 2

====
